---- MODULE Spec2Model ----
(***************************************************************************)
(* Model of the time-record merger: the merge planner calculateMerges      *)
(* (both variants found in the repository) and App.tsx, which feeds it     *)
(* (handlePreview) and applies its proposals (executeMerge).               *)
(***************************************************************************)
EXTENDS Integers, Sequences, FiniteSets, TLC

VARIABLES
    tz,          \* offset of local time from UTC in ms (what Date's local calendar uses)
    records,     \* the sequence of IRecord handed to the planner
    proposals,   \* the sequence of MergeProposal it returned
    called,      \* which planner produced `proposals`: "none", "sameDay", "numeric"
    table,           \* the rows of the external table, as getRecords returns them
    startFieldId,    \* App's selection state: "" while nothing is selected
    endFieldId,
    groupFieldIds,
    durationFieldId,
    merges,          \* App's pending proposals
    previewOpen,     \* whether the confirmation dialog is open
    processing,      \* App's flag of a merge being applied
    execPc,          \* where executeMerge stands: "idle" before its first run, the call
                     \* it awaits, or how its last run ended ("resolved", "caught")
    execMerges,      \* the `merges` the running executeMerge was created with
    execIdx,         \* the position of its loop in them
    calls            \* the store calls it has issued, each with its outcome

plannerVars == <<tz, records, proposals, called>>
configVars == <<startFieldId, endFieldId, groupFieldIds, durationFieldId>>
execVars == <<processing, execPc, execMerges, execIdx, calls>>
appVars == <<table, startFieldId, endFieldId, groupFieldIds, durationFieldId, merges, previewOpen,
             execVars>>
vars == <<tz, records, proposals, called, table, startFieldId, endFieldId, groupFieldIds,
          durationFieldId, merges, previewOpen, processing, execPc, execMerges, execIdx, calls>>

----------------------------------------------------------------------------
(* Program constants *)

\* the tolerance of the sequential predicate: "< 1000"
TOLERANCE == 1000

\* length of the calendar day Date.toDateString() cuts instants into
MsPerDay == 86400000

\* the separator of r.groupKeys.join('|||')
SEPARATOR == "|||"

----------------------------------------------------------------------------
(* JavaScript values of the optional `duration` field *)

Undefined == [tag |-> "undefined", n |-> 0]
NaN == [tag |-> "NaN", n |-> 0]
Null == [tag |-> "null", n |-> 0]
\* a string that is not the text of a number
Text == [tag |-> "text", n |-> 0]
Num(n) == [tag |-> "number", n |-> n]

Abs(x) == IF x < 0 THEN -x ELSE x
Max(a, b) == IF a >= b THEN a ELSE b

----------------------------------------------------------------------------
(* Bounds of the model *)

\* longest input sequence
MaxRecords == 4

IdNames == <<"A", "B", "C", "D", "E", "F">>

\* instants around a UTC midnight, one before it and three from it on:
\* gaps of 1, 999 and 1000 within the day, of 999, 1000 and 1999 across midnight
Instants == {MsPerDay - (TOLERANCE - 1), MsPerDay, MsPerDay + 1, MsPerDay + TOLERANCE}

\* local time zones: UTC (the instants straddle midnight) and UTC+8 (they do not)
TimeZones == {0, 28800000}

\* <<start, end>> of a record that begins and ends on one UTC day
Spans == {s \in Instants \X Instants : s[1] <= s[2] /\ s[1] \div MsPerDay = s[2] \div MsPerDay}

\* two spans, each continuous with itself and neither with the other
ChainSpans == {<<MsPerDay, MsPerDay + 1>>,
               <<MsPerDay + 2 * TOLERANCE, MsPerDay + 3 * TOLERANCE - 1>>}

GroupKeyChoices == {<<"X", "Y">>, <<"X|||Y">>, <<>>, <<"">>}

Durations == {Undefined, NaN, Num(0), Num(3)}

\* a record without its id: <<span, groupKeys, duration>>
TimingShapes == Spans \X {<<"X">>} \X {Undefined}
GroupingShapes == ChainSpans \X GroupKeyChoices \X {Undefined}
DurationShapes == ChainSpans \X {<<"X">>} \X Durations

MkRecord(i, shape) ==
    [id |-> IdNames[i], start |-> shape[1][1], end |-> shape[1][2],
     groupKeys |-> shape[2], duration |-> shape[3]]

\* the families of inputs: one dimension of the records varies in each
Families == {TimingShapes, GroupingShapes, DurationShapes}

----------------------------------------------------------------------------
(* calculateMerges *)

RECURSIVE join(_)
join(keys) ==
    IF Len(keys) = 0 THEN ""
    ELSE IF Len(keys) = 1 THEN keys[1]
    ELSE keys[1] \o SEPARATOR \o join(Tail(keys))

\* the keys of `groups` in insertion order
RECURSIVE GroupOrder(_, _)
GroupOrder(recs, seen) ==
    IF recs = <<>> THEN seen
    ELSE LET key == join(recs[1].groupKeys)
         IN GroupOrder(Tail(recs),
                       IF \E k \in 1..Len(seen) : seen[k] = key THEN seen ELSE Append(seen, key))

\* a bucket that holds every record
BucketAll(recs, key) == recs

Bucket(recs, key) == SelectSeq(recs, LAMBDA r : join(r.groupKeys) = key)

\* an insertion that puts a record before the records of equal start
RECURSIVE InsertByStartUnstable(_, _)
InsertByStartUnstable(sorted, r) ==
    IF sorted = <<>> THEN <<r>>
    ELSE IF r.start - sorted[Len(sorted)].start > 0 THEN Append(sorted, r)
    ELSE Append(InsertByStartUnstable(SubSeq(sorted, 1, Len(sorted) - 1), r),
                sorted[Len(sorted)])

\* groupRecords.sort((a, b) => a.start - b.start): stable, ascending by start
RECURSIVE InsertByStart(_, _)
InsertByStart(sorted, r) ==
    IF sorted = <<>> THEN <<r>>
    ELSE IF r.start - sorted[Len(sorted)].start >= 0 THEN Append(sorted, r)
    ELSE Append(InsertByStart(SubSeq(sorted, 1, Len(sorted) - 1), r), sorted[Len(sorted)])

RECURSIVE SortFrom(_, _)
SortFrom(recs, sorted) ==
    IF recs = <<>> THEN sorted ELSE SortFrom(Tail(recs), InsertByStart(sorted, recs[1]))

SortByStart(recs) == SortFrom(recs, <<>>)

\* new Date(t).toDateString(): the local calendar day of instant t
toDateString(t) == (t + tz) \div MsPerDay

NewProposal(record) ==
    [baseRecordId |-> record.id, newStart |-> record.start, newEnd |-> record.end,
     recordsToDelete |-> <<>>, originalRecords |-> <<record>>, validation |-> <<>>]

\* a tolerance that includes 1000
isSequentialInclusive(record, cur) == Abs(record.start - cur.newEnd) <= TOLERANCE

\* a tolerance that bounds the gap only, not the overlap
isSequentialOneSided(record, cur) == record.start - cur.newEnd < TOLERANCE

isSequential(record, cur) == Abs(record.start - cur.newEnd) < TOLERANCE

\* a day check that always passes
isSameDayAlways(record, cur) == TRUE

\* a day check on the UTC calendar instead of the local one
isSameDayUTC(record, cur) == cur.newStart \div MsPerDay = record.start \div MsPerDay

isSameDay(record, cur) == toDateString(cur.newStart) = toDateString(record.start)

\* a block that takes the absorbed record's end as it comes
AbsorbLastEnd(cur, record) ==
    [cur EXCEPT !.newEnd = record.end,
                !.recordsToDelete = Append(@, record.id),
                !.originalRecords = Append(@, record)]

\* a block that does not keep the absorbed record among its originals
AbsorbDropsOriginal(cur, record) ==
    [cur EXCEPT !.newEnd = Max(@, record.end),
                !.recordsToDelete = Append(@, record.id)]

Absorb(cur, record) ==
    [cur EXCEPT !.newEnd = Max(@, record.end),
                !.recordsToDelete = Append(@, record.id),
                !.originalRecords = Append(@, record)]

\* r.duration || 0
OrZero(d) == IF d.tag = "number" /\ d.n # 0 THEN d.n ELSE 0

RECURSIVE SumDurations(_)
SumDurations(recs) ==
    IF recs = <<>> THEN 0 ELSE OrZero(recs[1].duration) + SumDurations(Tail(recs))

hasDuration(p) ==
    \A i \in 1..Len(p.originalRecords) : p.originalRecords[i].duration # Undefined

finalizeProposal(p) ==
    IF hasDuration(p)
    THEN [p EXCEPT !.validation =
             <<[originalSum |-> SumDurations(p.originalRecords),
                newDuration |-> p.newEnd - p.newStart,
                isValid |-> TRUE]>>]
    ELSE p

\* the continuity test of the variant with the same-day check, and of the one without
Continuous(record, cur, sameDay) ==
    IF sameDay THEN isSequential(record, cur) /\ isSameDay(record, cur)
    ELSE isSequential(record, cur)

\* a close that pushes one-record blocks too
ClosedAlways(cur, sameDay) == <<IF sameDay THEN finalizeProposal(cur) ELSE cur>>

\* what is pushed when a block is closed: finalized in the variant with validation
Closed(cur, sameDay) ==
    IF Len(cur.recordsToDelete) > 0
    THEN <<IF sameDay THEN finalizeProposal(cur) ELSE cur>>
    ELSE <<>>

\* a loop that forgets the block still open after the last record
RECURSIVE WalkNoFlush(_, _, _, _, _)
WalkNoFlush(groupRecords, i, cur, out, sameDay) ==
    IF i > Len(groupRecords)
    THEN out
    ELSE LET record == groupRecords[i]
         IN IF cur = <<>>
            THEN WalkNoFlush(groupRecords, i + 1, <<NewProposal(record)>>, out, sameDay)
            ELSE IF Continuous(record, cur[1], sameDay)
            THEN WalkNoFlush(groupRecords, i + 1, <<Absorb(cur[1], record)>>, out, sameDay)
            ELSE WalkNoFlush(groupRecords, i + 1, <<NewProposal(record)>>,
                             out \o Closed(cur[1], sameDay), sameDay)

\* the loop over one sorted bucket; cur is <<>> for null, i the loop index
RECURSIVE Walk(_, _, _, _, _)
Walk(groupRecords, i, cur, out, sameDay) ==
    IF i > Len(groupRecords)
    THEN IF cur = <<>> THEN out ELSE out \o Closed(cur[1], sameDay)
    ELSE LET record == groupRecords[i]
         IN IF cur = <<>>
            THEN Walk(groupRecords, i + 1, <<NewProposal(record)>>, out, sameDay)
            ELSE IF Continuous(record, cur[1], sameDay)
            THEN Walk(groupRecords, i + 1, <<Absorb(cur[1], record)>>, out, sameDay)
            ELSE Walk(groupRecords, i + 1, <<NewProposal(record)>>,
                      out \o Closed(cur[1], sameDay), sameDay)

RECURSIVE ProcessGroups(_, _, _, _)
ProcessGroups(recs, order, out, sameDay) ==
    IF order = <<>> THEN out
    ELSE ProcessGroups(recs, Tail(order),
                       Walk(SortByStart(Bucket(recs, order[1])), 1, <<>>, out, sameDay),
                       sameDay)

\* a planner whose result array outlives the call
calculateMergesKeepsProposals(recs) ==
    ProcessGroups(recs, GroupOrder(recs, <<>>), proposals, TRUE)

\* the variant with the same-day check and the validation
calculateMerges(recs) == ProcessGroups(recs, GroupOrder(recs, <<>>), <<>>, TRUE)

\* the variant that merges on numeric continuity alone
calculateMergesNumeric(recs) == ProcessGroups(recs, GroupOrder(recs, <<>>), <<>>, FALSE)

----------------------------------------------------------------------------
(* App.tsx: handlePreview *)

\* Number(v)
Number(v) ==
    CASE v.tag = "number" -> v
      [] v.tag = "null" -> Num(0)
      [] OTHER -> NaN

\* a test every cell value passes
TruthyAlways(v) == TRUE

\* the truthiness of a cell value
Truthy(v) == v.tag = "text" \/ (v.tag = "number" /\ v.n # 0)

\* one grouping value: "" for an empty cell, else String(val)
GroupVal(val) == IF val = "" THEN "" ELSE val

\* the record handlePreview builds from row r
RowToRecord(r) ==
    [id |-> r.recordId,
     start |-> r.fields[startFieldId],
     end |-> r.fields[endFieldId],
     groupKeys |-> [k \in 1..Len(groupFieldIds) |-> GroupVal(r.fields[groupFieldIds[k]])],
     duration |-> IF durationFieldId # "" THEN Number(r.fields[durationFieldId]) ELSE Undefined]

\* records.filter(r => r.start && r.end), the instants then read as numbers
validRecords ==
    LET mapped == [i \in 1..Len(table) |-> RowToRecord(table[i])]
        kept == SelectSeq(mapped, LAMBDA r : Truthy(r.start) /\ Truthy(r.end))
    IN [i \in 1..Len(kept) |-> [kept[i] EXCEPT !.start = @.n, !.end = @.n]]

handlePreview ==
    \/ /\ startFieldId = "" \/ endFieldId = ""
       /\ UNCHANGED vars
    \/ /\ startFieldId # "" /\ endFieldId # ""
       /\ Len(table) = 0
       /\ UNCHANGED vars
    \/ /\ startFieldId # "" /\ endFieldId # ""
       /\ Len(table) > 0
       /\ records' = validRecords
       /\ proposals' = calculateMerges(validRecords)
       /\ called' = "sameDay"
       /\ merges' = proposals'
       /\ previewOpen' = (previewOpen \/ Len(proposals') > 0)
       /\ UNCHANGED <<tz, table, configVars, execVars>>

setStartFieldId ==
    /\ startFieldId' = "start"
    /\ UNCHANGED <<plannerVars, table, endFieldId, groupFieldIds, durationFieldId, merges, previewOpen,
                   execVars>>

setEndFieldId ==
    /\ endFieldId' = "end"
    /\ UNCHANGED <<plannerVars, table, startFieldId, groupFieldIds, durationFieldId, merges, previewOpen,
                   execVars>>

setGroupFieldIds ==
    /\ groupFieldIds' = IF groupFieldIds = <<>> THEN <<"group">> ELSE <<>>
    /\ UNCHANGED <<plannerVars, table, startFieldId, endFieldId, durationFieldId, merges, previewOpen,
                   execVars>>

setDurationFieldId ==
    /\ durationFieldId' = IF durationFieldId = "" THEN "duration" ELSE ""
    /\ UNCHANGED <<plannerVars, table, startFieldId, endFieldId, groupFieldIds, merges, previewOpen,
                   execVars>>

\* the dialog's onCancel
onCancel ==
    /\ previewOpen
    /\ previewOpen' = FALSE
    /\ UNCHANGED <<plannerVars, table, configVars, merges, execVars>>

----------------------------------------------------------------------------
(* App.tsx: executeMerge *)

\* table.setRecord(id, {fields: {[endFieldId]: value}}) on the rows
SetEnd(rows, id, value) ==
    [i \in 1..Len(rows) |->
        IF rows[i].recordId = id THEN [rows[i] EXCEPT !.fields.end = Num(value)] ELSE rows[i]]

\* table.deleteRecords(ids) on the rows
RemoveRows(rows, ids) ==
    SelectSeq(rows, LAMBDA r : \A k \in 1..Len(ids) : ids[k] # r.recordId)

\* the two store calls of proposal p, as they are logged with their outcome
SetRecordCall(p, ok) ==
    [op |-> "setRecord", id |-> p.baseRecordId, ids |-> <<>>, value |-> p.newEnd, ok |-> ok]

DeleteRecordsCall(p, ok) ==
    [op |-> "deleteRecords", id |-> "", ids |-> p.recordsToDelete, value |-> 0, ok |-> ok]

\* the dialog's onOk; the button does not react while confirmLoading (processing)
executeMerge ==
    /\ previewOpen
    /\ ~processing
    /\ processing' = TRUE
    /\ execPc' = "getActiveTable"
    /\ execMerges' = merges
    /\ execIdx' = 0
    /\ calls' = <<>>
    /\ UNCHANGED <<plannerVars, table, configVars, merges, previewOpen>>

\* the end of the try block, then finally
Resolved ==
    /\ previewOpen' = FALSE
    /\ merges' = <<>>
    /\ processing' = FALSE
    /\ execPc' = "resolved"
    /\ UNCHANGED execIdx

\* a catch inside the loop: after a failed update the delete is still issued
CaughtAndContinued ==
    IF execPc = "setRecord"
    THEN /\ execPc' = "deleteRecords"
         /\ UNCHANGED <<merges, previewOpen, processing, execIdx>>
    ELSE /\ processing' = FALSE
         /\ execPc' = "caught"
         /\ UNCHANGED <<merges, previewOpen, execIdx>>

\* a catch that drops the pending proposals
CaughtAndCleared ==
    /\ processing' = FALSE
    /\ execPc' = "caught"
    /\ merges' = <<>>
    /\ UNCHANGED <<previewOpen, execIdx>>

\* the catch block, then finally
Caught ==
    /\ processing' = FALSE
    /\ execPc' = "caught"
    /\ UNCHANGED <<merges, previewOpen, execIdx>>

\* the loop `for (const p of merges)` goes on to element k, or ends
LoopTo(k) ==
    IF k > Len(execMerges)
    THEN Resolved
    ELSE /\ execPc' = "setRecord"
         /\ execIdx' = k
         /\ UNCHANGED <<merges, previewOpen, processing>>

\* await bitable.base.getActiveTable() settles
awaitGetActiveTable ==
    /\ execPc = "getActiveTable"
    /\ \/ LoopTo(1)
       \/ Caught
    /\ UNCHANGED <<plannerVars, table, configVars, execMerges, calls>>

\* await table.setRecord(p.baseRecordId, ...) settles
awaitSetRecord ==
    /\ execPc = "setRecord"
    /\ LET p == execMerges[execIdx]
       IN \/ /\ table' = SetEnd(table, p.baseRecordId, p.newEnd)
             /\ calls' = Append(calls, SetRecordCall(p, TRUE))
             /\ IF Len(p.recordsToDelete) > 0
                THEN /\ execPc' = "deleteRecords"
                     /\ UNCHANGED <<merges, previewOpen, processing, execIdx>>
                ELSE LoopTo(execIdx + 1)
          \/ /\ calls' = Append(calls, SetRecordCall(p, FALSE))
             /\ Caught
             /\ UNCHANGED table
    /\ UNCHANGED <<plannerVars, configVars, execMerges>>

\* await table.deleteRecords(p.recordsToDelete) settles
awaitDeleteRecords ==
    /\ execPc = "deleteRecords"
    /\ LET p == execMerges[execIdx]
       IN \/ /\ table' = RemoveRows(table, p.recordsToDelete)
             /\ calls' = Append(calls, DeleteRecordsCall(p, TRUE))
             /\ LoopTo(execIdx + 1)
          \/ /\ calls' = Append(calls, DeleteRecordsCall(p, FALSE))
             /\ Caught
             /\ UNCHANGED table
    /\ UNCHANGED <<plannerVars, configVars, execMerges>>

\* the rows of the table: <<start, end, group, duration>> cells
MaxRows == 4

\* the row every table is built around
PlainRow == <<<<Num(MsPerDay), Num(MsPerDay + 1)>>, "X", Num(3)>>

\* the families of tables: the rows of a table are plain or differ from it in one way
TimingRows ==
    {PlainRow, <<<<Num(MsPerDay + 2 * TOLERANCE), Num(MsPerDay + 3 * TOLERANCE - 1)>>, "X", Num(3)>>}
FalsyRows(cells) == {PlainRow, <<cells, "X", Num(3)>>}
GroupingRows(group) == {PlainRow, <<PlainRow[1], group, Num(3)>>}
DurationRows(duration) == {PlainRow, <<PlainRow[1], "X", duration>>}

\* start or end missing, zero, null
FalsyCells == {<<Undefined, Num(MsPerDay + 1)>>, <<Num(MsPerDay), Num(0)>>, <<Num(MsPerDay), Null>>}

RowFamilies ==
    {TimingRows}
        \cup {FalsyRows(c) : c \in FalsyCells}
        \cup {GroupingRows(g) : g \in {"", "Y"}}
        \cup {DurationRows(d) : d \in {Undefined, Null, Text}}

MkRow(i, shape) ==
    [recordId |-> IdNames[i],
     fields |-> [start |-> shape[1][1], end |-> shape[1][2], group |-> shape[2],
                 duration |-> shape[3]]]

\* every instant of the rows lies on one day in each of TimeZones
AppInit ==
    /\ tz = 0
    /\ records = <<>>
    /\ proposals = <<>>
    /\ called = "none"
    /\ \E shapes \in RowFamilies : \E n \in 0..MaxRows : \E f \in [1..n -> shapes] :
          table = [i \in 1..n |-> MkRow(i, f[i])]
    /\ startFieldId = ""
    /\ endFieldId = ""
    /\ groupFieldIds = <<>>
    /\ durationFieldId = ""
    /\ merges = <<>>
    /\ previewOpen = FALSE
    /\ processing = FALSE
    /\ execPc = "idle"
    /\ execMerges = <<>>
    /\ execIdx = 0
    /\ calls = <<>>

AppNext ==
    \/ handlePreview
    \/ setStartFieldId
    \/ setEndFieldId
    \/ setGroupFieldIds
    \/ setDurationFieldId
    \/ onCancel
    \/ executeMerge
    \/ awaitGetActiveTable
    \/ awaitSetRecord
    \/ awaitDeleteRecords

AppSpec == AppInit /\ [][AppNext]_vars

----------------------------------------------------------------------------
(* The planner applied to an input *)

Init ==
    /\ tz \in TimeZones
    /\ \E shapes \in Families : \E n \in 0..MaxRecords : \E f \in [1..n -> shapes] :
          records = [i \in 1..n |-> MkRecord(i, f[i])]
    /\ proposals = <<>>
    /\ called = "none"
    /\ table = <<>>
    /\ startFieldId = ""
    /\ endFieldId = ""
    /\ groupFieldIds = <<>>
    /\ durationFieldId = ""
    /\ merges = <<>>
    /\ previewOpen = FALSE
    /\ processing = FALSE
    /\ execPc = "idle"
    /\ execMerges = <<>>
    /\ execIdx = 0
    /\ calls = <<>>

\* the planner can be invoked any number of times on the input
CallCalculateMerges ==
    /\ proposals' = calculateMerges(records)
    /\ called' = "sameDay"
    /\ UNCHANGED <<tz, records, appVars>>

CallCalculateMergesNumeric ==
    /\ proposals' = calculateMergesNumeric(records)
    /\ called' = "numeric"
    /\ UNCHANGED <<tz, records, appVars>>

Next == CallCalculateMerges \/ CallCalculateMergesNumeric

Spec == Init /\ [][Next]_vars

----------------------------------------------------------------------------
(* Vocabulary of the properties *)

Range(seq) == {seq[i] : i \in 1..Len(seq)}

Returned == called # "none"

\* the record ids a proposal touches
IdsOf(p) == {p.baseRecordId} \cup Range(p.recordsToDelete)

OriginalIds(p) == {p.originalRecords[i].id : i \in 1..Len(p.originalRecords)}

\* the sorted buckets of the input, one per group key
GroupKeysOf(recs) == {join(recs[i].groupKeys) : i \in 1..Len(recs)}
SortedBucket(key) == SortByStart(Bucket(records, key))
SortedBuckets == {SortedBucket(key) : key \in GroupKeysOf(records)}

\* the proposals built from the records of bucket g
ProposalsFrom(g) ==
    {k \in 1..Len(proposals) : OriginalIds(proposals[k]) \cap {g[i].id : i \in 1..Len(g)} # {}}

\* bucket g came out as one proposal holding all of it
MergedAsOne(g) == \E k \in 1..Len(proposals) : proposals[k].originalRecords = g

\* the same-day check is applied by the planner that produced `proposals`
DayChecked == called = "sameDay"

OnSameDay(t1, t2) == (t1 + tz) \div MsPerDay = (t2 + tz) \div MsPerDay

\* no record of sorted bucket g is continuous with the one-record accumulator before it
AllIsolated(g) ==
    \A i \in 2..Len(g) :
        ~ /\ Abs(g[i].start - g[i - 1].end) < TOLERANCE
          /\ (DayChecked => OnSameDay(g[i - 1].start, g[i].start))

MinStart(p) ==
    CHOOSE m \in {p.originalRecords[i].start : i \in 1..Len(p.originalRecords)} :
        \A i \in 1..Len(p.originalRecords) : m <= p.originalRecords[i].start

MaxEnd(p) ==
    CHOOSE m \in {p.originalRecords[i].end : i \in 1..Len(p.originalRecords)} :
        \A i \in 1..Len(p.originalRecords) : m >= p.originalRecords[i].end

----------------------------------------------------------------------------
(* C1: every returned proposal was built from two or more records, a group
   none of whose records is continuous with the accumulator before it yields
   no proposal, and the empty input yields the empty output. *)
C1_NoSingletonEmission ==
    Returned =>
        /\ \A k \in 1..Len(proposals) :
              /\ Len(proposals[k].recordsToDelete) >= 1
              /\ Len(proposals[k].originalRecords) >= 2
        /\ \A g \in SortedBuckets : AllIsolated(g) => ProposalsFrom(g) = {}
        /\ (records = <<>> => proposals = <<>>)

\* a group of several isolated records gave nothing while another group merged
C1_Witness ==
    /\ Returned
    /\ proposals # <<>>
    /\ \E g \in SortedBuckets : Len(g) >= 2 /\ AllIsolated(g) /\ ProposalsFrom(g) = {}

(* C2: conservation: in every returned proposal |recordsToDelete| + 1 =
   |originalRecords| and {baseRecordId} \cup recordsToDelete is the set of ids
   of originalRecords. *)
C2_Conservation ==
    Returned =>
        \A k \in 1..Len(proposals) :
            /\ Len(proposals[k].recordsToDelete) + 1 = Len(proposals[k].originalRecords)
            /\ IdsOf(proposals[k]) = OriginalIds(proposals[k])

C2_Witness ==
    /\ Returned
    /\ \E k \in 1..Len(proposals) :
          /\ Len(proposals[k].originalRecords) >= 3
          /\ Cardinality(IdsOf(proposals[k])) = Len(proposals[k].originalRecords)

(* C3: bounds: in every returned proposal newStart is the least start and
   newEnd the greatest end of its originalRecords. *)
C3_Bounds ==
    Returned =>
        \A k \in 1..Len(proposals) :
            /\ proposals[k].newStart = MinStart(proposals[k])
            /\ proposals[k].newEnd = MaxEnd(proposals[k])

\* a run whose last record ends before an earlier one does
C3_Witness ==
    /\ Returned
    /\ \E k \in 1..Len(proposals) :
          LET o == proposals[k].originalRecords
          IN /\ o[Len(o)].end < proposals[k].newEnd
             /\ proposals[k].newEnd = MaxEnd(proposals[k])

(* C4: grouping correctness: two records whose groupKeys sequences differ
   never appear together in the originalRecords of one proposal. *)
C4_GroupingCorrectness ==
    Returned =>
        \A k \in 1..Len(proposals) :
            \A i, j \in 1..Len(proposals[k].originalRecords) :
                proposals[k].originalRecords[i].groupKeys
                    = proposals[k].originalRecords[j].groupKeys

(* C5: tolerance boundary: of two same-group, same-day records r1 then r2,
   a gap r2.start - r1.end of 999 merges them into one proposal and a gap of
   1000 or more leaves them unmerged. *)
C5_ToleranceBoundary ==
    Returned =>
        \A g \in SortedBuckets :
            (Len(g) = 2 /\ OnSameDay(g[1].start, g[2].start)) =>
                /\ (g[2].start - g[1].end = TOLERANCE - 1 => MergedAsOne(g))
                /\ (g[2].start - g[1].end >= TOLERANCE => ProposalsFrom(g) = {})

\* the pair at distance 999 came out merged
C5_Witness ==
    /\ Returned
    /\ \E g \in SortedBuckets :
          /\ Len(g) = 2 /\ OnSameDay(g[1].start, g[2].start)
          /\ g[2].start - g[1].end = TOLERANCE - 1
          /\ MergedAsOne(g)

----------------------------------------------------------------------------
(* The accumulator a candidate met, read off the output: record g[i] of a
   sorted bucket was absorbed when it is a non-first original record of some
   proposal; the accumulator before g[i] starts at the last record before it
   that was not absorbed. *)

Joined(g, i) ==
    \E k \in 1..Len(proposals) :
        \E j \in 2..Len(proposals[k].originalRecords) : proposals[k].originalRecords[j] = g[i]

AccBase(g, i) ==
    CHOOSE b \in 1..(i - 1) :
        /\ b = 1 \/ ~Joined(g, b)
        /\ \A j \in (b + 1)..(i - 1) : Joined(g, j)

AccStart(g, i) == g[AccBase(g, i)].start

AccEnd(g, i) ==
    CHOOSE m \in {g[j].end : j \in AccBase(g, i)..(i - 1)} :
        \A j \in AccBase(g, i)..(i - 1) : m >= g[j].end

\* the candidates of the Open state: every record of a sorted bucket but the first
Overlapping(g, i) ==
    /\ g[i].start < AccEnd(g, i)
    /\ OnSameDay(AccStart(g, i), g[i].start)

(* C6, as stated: a same-group, same-day candidate whose start lies before
   the accumulator's current newEnd is absorbed into the current run. *)
C6_OverlapAbsorbed ==
    Returned =>
        \A g \in SortedBuckets : \A i \in 2..Len(g) :
            Overlapping(g, i) => Joined(g, i)

(* C6, amended: such an overlapping candidate is absorbed exactly when its
   start lies less than 1000 before the accumulator's newEnd. *)
C6_OverlapWithinTolerance ==
    Returned =>
        \A g \in SortedBuckets : \A i \in 2..Len(g) :
            Overlapping(g, i) =>
                (Joined(g, i) <=> AccEnd(g, i) - g[i].start < TOLERANCE)

\* one overlapping candidate absorbed and one, overlapping by 1000 or more, not
C6_Witness ==
    /\ Returned
    /\ \E g \in SortedBuckets : \E i \in 2..Len(g) :
          Overlapping(g, i) /\ Joined(g, i)
    /\ \E g \in SortedBuckets : \E i \in 2..Len(g) :
          Overlapping(g, i) /\ ~Joined(g, i) /\ AccEnd(g, i) - g[i].start >= TOLERANCE

\* the candidate is within the tolerance of the accumulator's end, one calendar day later
NextDayWithinTolerance(g, i) ==
    /\ Abs(g[i].start - AccEnd(g, i)) < TOLERANCE
    /\ (g[i].start + tz) \div MsPerDay = (AccStart(g, i) + tz) \div MsPerDay + 1

(* C7: a same-group candidate within the tolerance of the accumulator's end
   but starting on the next calendar day is not merged by the planner with
   the same-day check and is merged by the planner without it. *)
C7_SameDayMode ==
    Returned =>
        \A g \in SortedBuckets : \A i \in 2..Len(g) :
            NextDayWithinTolerance(g, i) =>
                /\ (called = "sameDay" => ~Joined(g, i))
                /\ (called = "numeric" => Joined(g, i))

\* the planner without the check merged a pair across midnight
C7_Witness ==
    /\ called = "numeric"
    /\ \E g \in SortedBuckets : \E i \in 2..Len(g) :
          NextDayWithinTolerance(g, i) /\ Joined(g, i)

\* the arithmetic sum of the durations of recs, none of them undefined
RECURSIVE ArithSum(_)
ArithSum(recs) ==
    IF recs = <<>> THEN Num(0)
    ELSE LET rest == ArithSum(Tail(recs))
         IN IF recs[1].duration = NaN \/ rest = NaN THEN NaN
            ELSE Num(recs[1].duration.n + rest.n)

(* C8: a proposal all of whose originalRecords have a duration carries a
   validation with originalSum the arithmetic sum of those durations and
   newDuration = newEnd - newStart; a proposal with a record without duration
   carries no validation. *)
C8_ValidationPresence ==
    called = "sameDay" =>
        \A k \in 1..Len(proposals) :
            LET p == proposals[k]
            IN IF \A i \in 1..Len(p.originalRecords) : p.originalRecords[i].duration # Undefined
               THEN /\ Len(p.validation) = 1
                    /\ Num(p.validation[1].originalSum) = ArithSum(p.originalRecords)
                    /\ p.validation[1].newDuration = p.newEnd - p.newStart
               ELSE p.validation = <<>>

(* C10: each record id occurs in {baseRecordId} \cup recordsToDelete of at
   most one returned proposal, and at most once there. *)
C10_DisjointProposals ==
    Returned =>
        /\ \A k, l \in 1..Len(proposals) :
              k # l => IdsOf(proposals[k]) \cap IdsOf(proposals[l]) = {}
        /\ \A k \in 1..Len(proposals) :
              Cardinality(IdsOf(proposals[k])) = Len(proposals[k].recordsToDelete) + 1

\* two proposals out of one input
C10_Witness ==
    /\ Returned
    /\ Len(proposals) >= 2
    /\ IdsOf(proposals[1]) \cap IdsOf(proposals[2]) = {}

----------------------------------------------------------------------------
(* Through the adapter *)

\* the row of the table a record was built from
\* record r was built with a duration field selected, from a row whose
\* duration cell is missing or holds no number
LacksDuration(r) ==
    /\ r.duration # Undefined
    /\ \E i \in 1..Len(table) :
          table[i].recordId = r.id /\ table[i].fields.duration.tag # "number"

(* C9: with a duration field selected, a proposal handlePreview stores that
   absorbs a row whose duration cell is missing or not numeric carries no
   validation. *)
C9_NoValidationOnMissingDuration ==
    \A k \in 1..Len(merges) :
        (\E i \in 1..Len(merges[k].originalRecords) : LacksDuration(merges[k].originalRecords[i]))
            => merges[k].validation = <<>>

----------------------------------------------------------------------------
\* the position of the record of this id in the input sequence
InputIndex(id) == CHOOSE i \in 1..Len(records) : records[i].id = id

(* C11: in every proposal originalRecords is ascending by start, records of
   equal start stand in their input order, and baseRecordId is the id of the
   first of them. *)
C11_SortedStableBase ==
    Returned =>
        \A k \in 1..Len(proposals) :
            LET o == proposals[k].originalRecords
            IN /\ proposals[k].baseRecordId = o[1].id
               /\ \A i \in 1..Len(o) : proposals[k].newStart <= o[i].start
               /\ \A i, j \in 1..Len(o) :
                     i < j =>
                        /\ o[i].start <= o[j].start
                        /\ (o[i].start = o[j].start =>
                              InputIndex(o[i].id) < InputIndex(o[j].id))

\* a proposal whose base came later in the input than a record it absorbs, and
\* which holds two records of equal start
C11_Witness ==
    /\ Returned
    /\ \E k \in 1..Len(proposals) :
          LET o == proposals[k].originalRecords
          IN /\ \E i \in 2..Len(o) : InputIndex(o[i].id) < InputIndex(o[1].id)
             /\ \E i, j \in 1..Len(o) : i < j /\ o[i].start = o[j].start

----------------------------------------------------------------------------
(* C12: an invocation of the planner leaves the input sequence as it was,
   and an invocation that follows one of the same variant on the same input
   returns the proposals that one returned. *)
C12_Pure ==
    [][/\ records' = records
       /\ (called' = called => proposals' = proposals)]_vars

\* the planner returned proposals with validations for an input that was not in
\* start order within a bucket
C12_Witness ==
    /\ called = "sameDay"
    /\ \E k \in 1..Len(proposals) : proposals[k].validation # <<>>
    /\ \E i, j \in 1..Len(records) :
          /\ i < j
          /\ records[i].groupKeys = records[j].groupKeys
          /\ records[i].start > records[j].start

----------------------------------------------------------------------------
\* the latest end among the records of a non-empty sequence
EndsMax(recs) ==
    CHOOSE m \in {recs[i].end : i \in 1..Len(recs)} : \A i \in 1..Len(recs) : m >= recs[i].end

\* the sorted bucket that holds the record of this id
BucketOf(id) == CHOOSE g \in SortedBuckets : \E i \in 1..Len(g) : g[i].id = id

\* the position of the record of this id in sorted bucket g
PosIn(g, id) == CHOOSE i \in 1..Len(g) : g[i].id = id

\* record r continues the records `run` as the walk tests it: against the latest
\* end among them and the day of the first of them
ContinuesRun(run, r) ==
    /\ Abs(r.start - EndsMax(run)) < TOLERANCE
    /\ OnSameDay(run[1].start, r.start)

\* record r continues record q, tested against q alone
ContinuesRecord(q, r) ==
    /\ Abs(r.start - q.end) < TOLERANCE
    /\ OnSameDay(q.start, r.start)

(* C15 as stated: in every proposal of the variant with the day check each
   record continues the record just before it (its start within 1000 of that
   record's end, on the same day), and the record that follows the proposal's
   records in the sorted bucket does not continue the last of them. *)
C15_PairwiseRun ==
    DayChecked =>
        \A k \in 1..Len(proposals) :
            LET o == proposals[k].originalRecords
                g == BucketOf(proposals[k].baseRecordId)
                a == PosIn(g, proposals[k].baseRecordId)
                b == a + Len(o) - 1
            IN /\ b <= Len(g) /\ o = SubSeq(g, a, b)
               /\ \A i \in 2..Len(o) : ContinuesRecord(o[i - 1], o[i])
               /\ (b < Len(g) => ~ContinuesRecord(o[Len(o)], g[b + 1]))

(* C15: in every proposal of the variant with the day check the records are
   consecutive records of the sorted bucket, each record after the first has
   its start within 1000 of the latest end among the records before it and
   lies on the day of the first, and the record that follows them in the
   sorted bucket fails that test against the whole proposal. *)
C15_AccumulatorRun ==
    DayChecked =>
        \A k \in 1..Len(proposals) :
            LET o == proposals[k].originalRecords
                g == BucketOf(proposals[k].baseRecordId)
                a == PosIn(g, proposals[k].baseRecordId)
                b == a + Len(o) - 1
            IN /\ b <= Len(g) /\ o = SubSeq(g, a, b)
               /\ \A i \in 2..Len(o) : ContinuesRun(SubSeq(o, 1, i - 1), o[i])
               /\ (b < Len(g) => ~ContinuesRun(o, g[b + 1]))

\* a proposal took a record that starts 1000 or more after the end of the record
\* before it, because an earlier record of the proposal ends later
C15_Witness ==
    /\ DayChecked
    /\ \E k \in 1..Len(proposals) :
          LET o == proposals[k].originalRecords
          IN \E i \in 3..Len(o) :
                /\ o[i].start - o[i - 1].end >= TOLERANCE
                /\ ContinuesRun(SubSeq(o, 1, i - 1), o[i])

----------------------------------------------------------------------------
\* sorted bucket g cut into runs from its first record on: for each of its first
\* n records, the position of the first record of the run that holds it
RECURSIVE RunStarts(_, _)
RunStarts(g, n) ==
    IF n = 0 THEN <<>>
    ELSE IF n = 1 THEN <<1>>
    ELSE LET before == RunStarts(g, n - 1)
             s == before[n - 1]
         IN Append(before,
                   IF /\ Abs(g[n].start - EndsMax(SubSeq(g, s, n - 1))) < TOLERANCE
                      /\ (DayChecked => OnSameDay(g[s].start, g[n].start))
                   THEN s ELSE n)

\* the records of the run that begins at position s, starts being RunStarts of g
RunAt(g, starts, s) ==
    SubSeq(g, s, s + Cardinality({i \in 1..Len(g) : starts[i] = s}) - 1)

(* C16: the proposals built from a bucket are its runs of two or more
   records, one proposal per run and in the order of the runs, each with the
   run's first record as base; the records in no proposal are those that are
   a run by themselves. *)
C16_RunsEmittedOnce ==
    Returned =>
        \A g \in SortedBuckets :
            LET starts == RunStarts(g, Len(g))
                long == {s \in 1..Len(g) : Len(RunAt(g, starts, s)) >= 2}
                from == ProposalsFrom(g)
            IN /\ Cardinality(from) = Cardinality(long)
               /\ \A s \in long :
                     \E k \in from :
                         /\ proposals[k].baseRecordId = g[s].id
                         /\ proposals[k].originalRecords = RunAt(g, starts, s)
               /\ \A k1, k2 \in from :
                     k1 < k2 => PosIn(g, proposals[k1].baseRecordId)
                                   < PosIn(g, proposals[k2].baseRecordId)
               /\ \A i \in 1..Len(g) :
                     (\A k \in 1..Len(proposals) : g[i].id \notin OriginalIds(proposals[k]))
                        <=> RunAt(g, starts, starts[i]) = <<g[i]>>

\* a bucket gave two proposals: the record that ended the first run is the base
\* of the second, which holds the bucket's last record
C16_Witness ==
    /\ Returned
    /\ \E g \in SortedBuckets : \E k1, k2 \in ProposalsFrom(g) :
          /\ k1 < k2
          /\ PosIn(g, proposals[k2].baseRecordId)
                = PosIn(g, proposals[k1].baseRecordId) + Len(proposals[k1].originalRecords)
          /\ g[Len(g)].id \in OriginalIds(proposals[k2])

----------------------------------------------------------------------------
\* a cell that is missing, null, not a number, or zero
Falsy(v) == v.tag \in {"undefined", "null", "NaN"} \/ (v.tag = "number" /\ v.n = 0)

\* the rows whose start or end cell is falsy
FalsyRowIds ==
    {table[i].recordId : i \in {j \in 1..Len(table) :
        Falsy(table[j].fields.start) \/ Falsy(table[j].fields.end)}}

(* C13: no row whose start or end cell is missing, null or zero is among the
   records handlePreview hands to calculateMerges, nor in the originalRecords,
   baseRecordId or recordsToDelete of a pending proposal. *)
C13_FalsyRowsDropped ==
    /\ \A i \in 1..Len(records) : records[i].id \notin FalsyRowIds
    /\ \A k \in 1..Len(merges) :
          (IdsOf(merges[k]) \cup OriginalIds(merges[k])) \cap FalsyRowIds = {}

\* a preview of a table that holds a row without start or end, the other rows
\* of which gave a proposal
C13_Witness ==
    /\ called = "sameDay"
    /\ FalsyRowIds # {}
    /\ Len(records) + Cardinality(FalsyRowIds) = Len(table)
    /\ merges # <<>>

----------------------------------------------------------------------------
\* executeMerge is between its start and its end
Running == execPc \in {"getActiveTable", "setRecord", "deleteRecords"}

\* a logged call without its outcome
Issued(c) == [op |-> c.op, id |-> c.id, ids |-> c.ids, value |-> c.value]

\* the calls a complete application of the proposals ms issues, in order
RECURSIVE ExpectedCalls(_)
ExpectedCalls(ms) ==
    IF ms = <<>> THEN <<>>
    ELSE <<[op |-> "setRecord", id |-> ms[1].baseRecordId, ids |-> <<>>,
            value |-> ms[1].newEnd],
           [op |-> "deleteRecords", id |-> "", ids |-> ms[1].recordsToDelete, value |-> 0]>>
            \o ExpectedCalls(Tail(ms))

\* rows `after` are rows `before` with the call c carried out
CarriedOut(c, before, after) ==
    IF c.op = "setRecord"
    THEN /\ Len(after) = Len(before)
         /\ \A i \in 1..Len(before) :
               IF before[i].recordId = c.id
               THEN /\ after[i].recordId = c.id
                    /\ after[i].fields.end = Num(c.value)
                    /\ after[i].fields.start = before[i].fields.start
                    /\ after[i].fields.group = before[i].fields.group
                    /\ after[i].fields.duration = before[i].fields.duration
               ELSE after[i] = before[i]
    ELSE after = SelectSeq(before, LAMBDA r : r.recordId \notin Range(c.ids))

\* proposal p is applied to the table: its base row, if there, ends at newEnd
\* and the rows it deletes are gone
Applied(p) ==
    \A i \in 1..Len(table) :
        /\ table[i].recordId \notin Range(p.recordsToDelete)
        /\ (table[i].recordId = p.baseRecordId => table[i].fields.end = Num(p.newEnd))

\* the calls issued so far are the first calls of ExpectedCalls, none follows a
\* failed one, and the proposals both of whose calls succeeded are applied
CallsInOrder ==
    LET expected == ExpectedCalls(execMerges)
    IN /\ Len(calls) <= Len(expected)
       /\ \A i \in 1..Len(calls) : Issued(calls[i]) = expected[i]
       /\ \A i \in 1..Len(calls) : ~calls[i].ok => (i = Len(calls) /\ execPc = "caught")
       /\ execPc = "resolved" => Len(calls) = Len(expected)
       /\ \A k \in 1..Len(execMerges) :
             (2 * k <= Len(calls) /\ calls[2 * k].ok) => Applied(execMerges[k])

\* the table changes only by the call a step issues, when that call succeeds
TableFollowsCalls ==
    /\ calls' # calls =>
          \/ calls' = <<>> /\ execPc' = "getActiveTable" /\ table' = table
          \/ /\ Len(calls') = Len(calls) + 1
             /\ SubSeq(calls', 1, Len(calls)) = calls
             /\ IF calls'[Len(calls')].ok
                THEN CarriedOut(calls'[Len(calls')], table, table')
                ELSE table' = table
    /\ calls' = calls => table' = table

(* C14: executeMerge issues the update and then the delete of each proposal,
   proposal after proposal in list order; the table changes by each successful
   call and by nothing else; and after a failed call no call is issued, which
   leaves the proposals before the failing one applied. *)
C14_OrderedStopOnFailure == [][CallsInOrder' /\ TableFollowsCalls]_vars

\* two proposals: the first was applied, the update of the second succeeded and
\* its delete failed, so its rows to delete are still in the table
C14_Witness ==
    /\ execPc = "caught"
    /\ Len(execMerges) = 2
    /\ Len(calls) = 4
    /\ ~calls[4].ok
    /\ Applied(execMerges[1])
    /\ \A id \in Range(execMerges[2].recordsToDelete) :
          \E i \in 1..Len(table) : table[i].recordId = id

----------------------------------------------------------------------------
(* C17: whenever executeMerge is not running the processing flag is false;
   the step that ends it with success empties the pending proposals and
   closes the dialog; the step that ends it with a failure leaves the pending
   proposals and the dialog as they were; and a run that starts takes the
   pending proposals from the first on, with no call issued yet. *)
C17_FinishAndRetry ==
    [][/\ ~Running' => ~processing'
       /\ (Running /\ execPc' = "resolved") => (merges' = <<>> /\ ~previewOpen')
       /\ (Running /\ execPc' = "caught") => (merges' = merges /\ previewOpen' = previewOpen)
       /\ (~Running /\ Running') => (execMerges' = merges /\ calls' = <<>>)
       /\ calls' # <<>> => Issued(calls'[1]) = ExpectedCalls(execMerges')[1]]_vars

\* a second run over the proposals of a failed run, the dialog still open: the
\* update of the first proposal was issued again though its rows to delete
\* were gone already
C17_Witness ==
    /\ execPc = "deleteRecords"
    /\ execIdx = 1
    /\ Len(calls) = 1
    /\ merges = execMerges
    /\ previewOpen
    /\ Applied(execMerges[1])

====
